---- MODULE Spec2Model ----
(***************************************************************************)
(* vault-crypt: the pin cipher (src/src/pins.rs), the vault codec          *)
(* (Pins::verify / load / save), the cracking engine (src/src/re.rs) and   *)
(* the editor's key handling (src/src/main.rs).                            *)
(*                                                                         *)
(* A u32 is modelled exactly, as the set of its set bit positions (a       *)
(* subset of 0..31): xor is symmetric difference, a shift moves the        *)
(* positions and drops those that leave the word.  A u8 is an integer.     *)
(***************************************************************************)
EXTENDS Integers, Sequences, FiniteSets, TLC

\* ------------------------------------------------------------------ words

WordBits == 32

Bits == 0 .. (WordBits - 1)

RECURSIVE Pow2(_)
Pow2(n) == IF n = 0 THEN 1 ELSE 2 * Pow2(n - 1)

\* The u32 with value n, for 0 <= n < 2^31.
ToWord(n) == {b \in 0 .. (WordBits - 2) : (n \div Pow2(b)) % 2 = 1}

RECURSIVE SumBits(_)
SumBits(w) ==
    IF w = {} THEN 0
    ELSE LET b == CHOOSE x \in w : TRUE IN Pow2(b) + SumBits(w \ {b})

\* The value of a u32 below 2^31.
ToInt(w) == SumBits(w)

\* w < n and w > n for a u32 w and an integer 0 <= n < 2^31.
WordLt(w, n) == (WordBits - 1) \notin w /\ ToInt(w) < n
WordGt(w, n) == (WordBits - 1) \in w \/ ToInt(w) > n

\* a ^ b, a | b, a & !b, bit by bit.
XOR(a, b) == {x \in Bits : (x \in a) # (x \in b)}
OR(a, b) == {x \in Bits : x \in a \/ x \in b}
ANDNOT(a, b) == {x \in Bits : x \in a /\ x \notin b}
Shl(w, k) == {b \in Bits : (b - k) \in w}
Shr(w, k) == {b \in Bits : (b + k) \in w}

\* ----------------------------------------------------------------- cipher

xorshift32(state) ==
    LET x1 == XOR(state, Shl(state, 13))
        x2 == XOR(x1, Shr(x1, 17))
        x3 == XOR(x2, Shl(x2, 5))
    IN  x3

\* The loop `for _ in 0..shift { x = xorshift32(x) }`: xorshift32 applied shift
\* times, the first shift / 2 applications and then the rest, which keeps
\* TLC's evaluation shallow for the 100 steps of slot 99.  The test
\* half \subseteq Bits (a u32 stays a u32) has TLC evaluate the first part
\* before the second.
RECURSIVE n_shift(_, _)
n_shift(state, shift) ==
    IF shift = 0 THEN state
    ELSE IF shift = 1 THEN xorshift32(state)
    ELSE LET half == n_shift(state, shift \div 2)
         IN  IF half \subseteq Bits THEN n_shift(half, shift - shift \div 2) ELSE {}

\* id + 1 on a u8 (the release build wraps; verified ids are at most 99).
StepCount(id) == (id + 1) % 256

\* x |= r << 30, r the value OsRng.gen_range(0b00..=0b11) returned.
encapsulate(pin, r) == OR(pin, Shl(ToWord(r), 30))

\* x &= !(0b11 << 30)
decapsulate_bit31_only(pin) == ANDNOT(pin, Shl(ToWord(1), 31))
decapsulate(pin) == ANDNOT(pin, Shl(ToWord(3), 30))

encrypt_id_steps(master, id, pin, r) == XOR(n_shift(master, id), encapsulate(pin, r))
encrypt(master, id, pin, r) == XOR(n_shift(master, StepCount(id)), encapsulate(pin, r))

decrypt(master, id, pin) == decapsulate(XOR(n_shift(master, StepCount(id)), pin))

\* ------------------------------------------------------------ vault codec

\* One byte as its bit positions, and back.
ByteBits(b) == {j \in 0 .. 7 : (b \div Pow2(j)) % 2 = 1}
ByteOf(w, k) == SumBits({j \in 0 .. 7 : (8 * k + j) \in w})

\* (b0 as u32) << 24 | (b1 as u32) << 16 | (b2 as u32) << 8 | b3 as u32
FromBeBytes(b0, b1, b2, b3) ==
    {x \in Bits :
        \/ (x - 24) \in ByteBits(b0)
        \/ (x - 16) \in ByteBits(b1)
        \/ (x - 8) \in ByteBits(b2)
        \/ x \in ByteBits(b3)}

\* u32::to_be_bytes
to_le_bytes(w) == <<ByteOf(w, 0), ByteOf(w, 1), ByteOf(w, 2), ByteOf(w, 3)>>
to_be_bytes(w) == <<ByteOf(w, 3), ByteOf(w, 2), ByteOf(w, 1), ByteOf(w, 0)>>

\* The bail! messages of Pins::verify; "Ok" is Ok(()).
ErrEmpty == "Input is empty"
ErrTruncated == "Not enough bytes for given length"
ErrIdTooLarge == "Id is too large"
ErrDuplicate == "Duplicate id"

MaxSlot == 99

\* The loop of Pins::verify from index i on, pins the HashSet of ids seen.
RECURSIVE verify_from(_, _, _, _)
verify_from(body, len, i, pins) ==
    IF i >= len THEN "Ok"
    ELSE LET id == body[i * 5 + 1]
         IN  IF id > MaxSlot THEN ErrIdTooLarge
             ELSE IF id \in pins THEN ErrDuplicate
             ELSE verify_from(body, len, i + 1, pins \cup {id})

verify_no_duplicate_check(bytes) ==
    IF Len(bytes) = 0 THEN ErrEmpty
    ELSE IF Len(Tail(bytes)) < bytes[1] * 5 THEN ErrTruncated
    ELSE IF \E i \in 0 .. (bytes[1] - 1) : Tail(bytes)[i * 5 + 1] > MaxSlot
         THEN ErrIdTooLarge
         ELSE "Ok"

verify_no_range_check(bytes) ==
    IF Len(bytes) = 0 THEN ErrEmpty
    ELSE IF Len(Tail(bytes)) < bytes[1] * 5 THEN ErrTruncated
    ELSE IF \E i, j \in 0 .. (bytes[1] - 1) :
                i # j /\ Tail(bytes)[i * 5 + 1] = Tail(bytes)[j * 5 + 1]
         THEN ErrDuplicate
         ELSE "Ok"

verify(bytes) ==
    IF Len(bytes) = 0 THEN ErrEmpty
    ELSE LET len == bytes[1]
             body == Tail(bytes)
         IN  IF Len(body) < len * 5 THEN ErrTruncated
             ELSE verify_from(body, len, 0, {})

\* The raw record i (0-based) of a buffer body: its id byte and its word.
RawId(body, i) == body[i * 5 + 1]
RawWord(body, i) ==
    FromBeBytes(body[i * 5 + 2], body[i * 5 + 3], body[i * 5 + 4], body[i * 5 + 5])

\* Vec::sort_by_key(|pin| pin.id): a stable sort, here by insertion.
RECURSIVE InsertById(_, _)
InsertById(sorted, pin) ==
    IF sorted = <<>> THEN <<pin>>
    ELSE IF sorted[Len(sorted)].id <= pin.id THEN Append(sorted, pin)
    ELSE Append(InsertById(SubSeq(sorted, 1, Len(sorted) - 1), pin), sorted[Len(sorted)])

RECURSIVE SortById(_)
SortById(pins) ==
    IF pins = <<>> THEN <<>>
    ELSE InsertById(SortById(SubSeq(pins, 1, Len(pins) - 1)), pins[Len(pins)])

Max(a, b) == IF a >= b THEN a ELSE b

RECURSIVE MaxId(_)
MaxId(pins) == IF pins = <<>> THEN 0 ELSE Max(MaxId(Tail(pins)), Head(pins).id)

\* Pins::load.  [ok |-> FALSE] is a failed assert! (a panic); pin_bytes[0..3]
\* are in range once bytes.len() >= len * 5 holds.
Pins_load(bytes, master) ==
    IF Len(bytes) = 0 THEN [ok |-> FALSE]
    ELSE LET len == bytes[1]
             body == Tail(bytes)
         IN  IF Len(body) < len * 5 THEN [ok |-> FALSE]
             ELSE IF \E i \in 0 .. (len - 1) : RawId(body, i) > MaxSlot THEN [ok |-> FALSE]
             ELSE LET pins == [i \in 1 .. len |->
                                 [id |-> RawId(body, i - 1),
                                  pin |-> decrypt(master, RawId(body, i - 1),
                                                  RawWord(body, i - 1))]]
                  IN  [ok |-> TRUE, master |-> master, pins |-> SortById(pins),
                       max_id |-> MaxId(pins)]

\* Pins::save.  rs[i] is the value OsRng returns while pin i is encrypted.
RECURSIVE save_records(_, _, _)
save_records(master, pins, rs) ==
    IF pins = <<>> THEN <<>>
    ELSE LET pin == Head(pins)
             rest == save_records(master, Tail(pins), Tail(rs))
         IN  IF pin.pin # {}
             THEN <<pin.id>> \o to_be_bytes(encrypt(master, pin.id, pin.pin, Head(rs))) \o rest
             ELSE rest

save(master, pins, rs) == <<Len(pins) % 256>> \o save_records(master, pins, rs)

\* ------------------------------------------------------------------ state

VARIABLES
    c_pc,       \* cipher calls: "in", "encrypted", "decrypted", "masked_in", "masked_out"
    c_master,   \* master: u32
    c_id,       \* id: u8
    c_pin,      \* pin: u32, the plaintext handed to encrypt / encapsulate
    c_nonce,    \* the value OsRng.gen_range(0b00..=0b11) returned
    c_word,     \* the word encrypt / encapsulate returned
    c_out,      \* the word decrypt / decapsulate returned
    v_pc,       \* verify calls: "in", "done"
    v_bytes,    \* bytes: &[u8]
    v_result,   \* what Pins::verify returned
    pc,         \* main: "main", "run" (App::run), "error" (main returned Err),
                \* "load_panicked" (an assert! of Pins::load failed),
                \* "index_panicked" (an index past the end of Pins.pins), "exited"
    bytes,      \* App.bytes, also the contents of App.file
    state,      \* App.state: "Locked" or "Unlocked"
    input,      \* AppState::Locked.input, a sequence of digits
    master,     \* Pins.master
    pins,       \* Pins.pins, a sequence of [id, pin]
    max_id,     \* Pins.max_id
    selected,   \* UnlockedState.state.selected(): {} is None, {i} is Some(i)
    last_selected,  \* UnlockedState.last_selected, likewise
    edits,      \* pin edits (+, digit, Backspace, Delete) handled so far
    saves,      \* saves (Ctrl-S) handled so far
    e_pc,       \* crack / find: "main", "usage" (main printed the usage), "error"
                \* (Pins::verify failed), "called" (the engine is entered),
                \* "panicked" (an assert! failed), "spawning", "joining", "done"
    e_bytes,    \* the bytes crack / find read from the file
    mode,       \* "crack" (bruteforce_threaded) or "find" (find_threaded)
    thread_count,   \* thread_count: u32
    known_pins, \* known_pins: &[u32], a sequence of words
    cracker,    \* Cracker.pins, a sequence of [id, pin]
    workers,    \* per spawned thread i: [st, master, sus], sus its local Vec<SusMaster>
    spawned,    \* the loop variable i of `for i in 0..thread_count`
    joined,     \* the handles joined so far
    result,     \* the Vec<SusMaster> collected so far
    evals       \* history: how often each master below the bound was evaluated

cipherVars == <<c_pc, c_master, c_id, c_pin, c_nonce, c_word, c_out>>

verifyVars == <<v_pc, v_bytes, v_result>>

appVars ==
    <<pc, bytes, state, input, master, pins, max_id, selected, last_selected,
      edits, saves>>

engineVars ==
    <<e_pc, e_bytes, mode, thread_count, known_pins, cracker,
      workers, spawned, joined, result, evals>>

vars == <<cipherVars, verifyVars, appVars, engineVars>>

notCipher == <<verifyVars, appVars, engineVars>>
notVerify == <<cipherVars, appVars, engineVars>>
notApp == <<cipherVars, verifyVars, engineVars>>
notEngine == <<cipherVars, verifyVars, appVars>>

CipherIdle ==
    /\ c_pc = "idle" /\ c_master = {} /\ c_id = 0 /\ c_pin = {}
    /\ c_nonce = 0 /\ c_word = {} /\ c_out = {}

VerifyIdle == v_pc = "idle" /\ v_bytes = <<>> /\ v_result = "Ok"

AppIdle ==
    /\ pc = "idle" /\ bytes = <<>> /\ state = "Locked" /\ input = <<>>
    /\ master = {} /\ pins = <<>> /\ max_id = 0 /\ selected = {}
    /\ last_selected = {} /\ edits = 0 /\ saves = 0

EngineIdle ==
    /\ e_pc = "idle" /\ e_bytes = <<>> /\ mode = "crack" /\ thread_count = 0
    /\ known_pins = <<>> /\ cracker = <<>>
    /\ workers = <<>> /\ spawned = 0 /\ joined = 0 /\ result = <<>> /\ evals = <<>>

\* ----------------------------------------------------- cipher call harness

Nonces == 0 .. 3

CipherMasters == {ToWord(0), ToWord(1), ToWord(123456789), ToWord(999999999), Bits}
CipherIds == {0, 7, 98, 99}
CipherPins ==
    {ToWord(0), ToWord(42), ToWord(123456789), ToWord(999999999),
     ToWord(Pow2(30) - 1), {30}, {31}, {0, 30}, Bits}

InitCipher ==
    /\ c_pc = "in"
    /\ c_master \in CipherMasters
    /\ c_id \in CipherIds
    /\ c_pin \in CipherPins
    /\ c_nonce = 0
    /\ c_word = {}
    /\ c_out = {}
    /\ VerifyIdle
    /\ AppIdle
    /\ EngineIdle

CallEncrypt ==
    /\ c_pc = "in"
    /\ \E r \in Nonces :
          /\ c_nonce' = r
          /\ c_word' = encrypt(c_master, c_id, c_pin, r)
    /\ c_pc' = "encrypted"
    /\ UNCHANGED <<c_master, c_id, c_pin, c_out, notCipher>>

CallDecrypt ==
    /\ c_pc = "encrypted"
    /\ c_out' = decrypt(c_master, c_id, c_word)
    /\ c_pc' = "decrypted"
    /\ UNCHANGED <<c_master, c_id, c_pin, c_nonce, c_word, notCipher>>

CallEncapsulate ==
    /\ c_pc = "in"
    /\ \E r \in Nonces :
          /\ c_nonce' = r
          /\ c_word' = encapsulate(c_pin, r)
    /\ c_pc' = "masked_in"
    /\ UNCHANGED <<c_master, c_id, c_pin, c_out, notCipher>>

CallDecapsulate ==
    /\ c_pc = "masked_in"
    /\ c_out' = decapsulate(c_word)
    /\ c_pc' = "masked_out"
    /\ UNCHANGED <<c_master, c_id, c_pin, c_nonce, c_word, notCipher>>

NextCipher == CallEncrypt \/ CallDecrypt \/ CallEncapsulate \/ CallDecapsulate

SpecCipher == InitCipher /\ [][NextCipher]_vars

\* ----------------------------------------------------- verify call harness

MaxRecs == 3

VerifyIds == {0, 7, 99, 100, 255}

\* The four ciphertext bytes of every sample record: values that are also ids.
WordFill == <<200, 0, 7, 99>>

RECURSIVE Layout(_)
Layout(ids) ==
    IF ids = <<>> THEN <<>> ELSE <<Head(ids)>> \o WordFill \o Layout(Tail(ids))

\* Every prefix of [count][(id, word) x k], count and k independent.
InitVerify ==
    /\ v_pc = "in"
    /\ \E n \in 0 .. MaxRecs, k \in 0 .. MaxRecs :
          \E ids \in [1 .. k -> VerifyIds], cut \in 0 .. (1 + 5 * k) :
              v_bytes = SubSeq(<<n>> \o Layout(ids), 1, cut)
    /\ v_result = "Ok"
    /\ CipherIdle
    /\ AppIdle
    /\ EngineIdle

CallVerify ==
    /\ v_pc = "in"
    /\ v_result' = verify(v_bytes)
    /\ v_pc' = "done"
    /\ UNCHANGED <<v_bytes, notVerify>>

NextVerify == CallVerify

SpecVerify == InitVerify /\ [][NextVerify]_vars

\* ------------------------------------------------------------- Pins edits

\* Pins::add: [ok |-> the bool returned, pins, max_id].
Pins_add_no_cap(ps, mx, pin) ==
    LET id == IF ps # <<>> THEN mx + 1 ELSE mx
    IN  [ok |-> TRUE, pins |-> Append(ps, [id |-> id, pin |-> pin]), max_id |-> id]

Pins_add(ps, mx, pin) ==
    IF mx >= MaxSlot THEN [ok |-> FALSE, pins |-> ps, max_id |-> mx]
    ELSE LET id == IF ps # <<>> THEN mx + 1 ELSE mx
         IN  [ok |-> TRUE, pins |-> Append(ps, [id |-> id, pin |-> pin]), max_id |-> id]

\* Pins::set and Pins::remove, for an index in range (0-based).
Pins_set(ps, index, value) == [ps EXCEPT ![index + 1].pin = value]
Pins_remove(ps, index) == SubSeq(ps, 1, index) \o SubSeq(ps, index + 2, Len(ps))

\* pin * 10 + digit for pin < 100_000_000, and pin / 10, on u32.
Mul10Add(w, digit) == ToWord(ToInt(w) * 10 + digit)
Div10(w) ==
    IF (WordBits - 1) \in w
    THEN LET r == ToInt(w \ {WordBits - 1})
         IN  ToWord(214748364 + (r \div 10) + ((r % 10) + 8) \div 10)
    ELSE ToWord(ToInt(w) \div 10)

\* str::parse::<u32> of a string of at most 9 digits.
RECURSIVE ParseDigits(_)
ParseDigits(digits) ==
    IF digits = <<>> THEN 0
    ELSE ParseDigits(SubSeq(digits, 1, Len(digits) - 1)) * 10 + digits[Len(digits)]

\* ------------------------------------------------------- the open command

MaxInput == 1
MaxEdits == 2
MaxSaves == 1

InputCap == 9
PinCap == 100000000

DigitKeys == {1, 9}

\* The mask bits drawn during a save: a sample of Nonces with each bit both ways.
SaveNonces == {1, 2}

\* A vault file as Pins::save writes it for nonzero pins: recs is a sequence of
\* [id, pin, r], r the mask bits of the stored word.
RECURSIVE FileRecords(_, _)
FileRecords(m, recs) ==
    IF recs = <<>> THEN <<>>
    ELSE <<Head(recs).id>>
         \o to_be_bytes(encrypt(ToWord(m), Head(recs).id, ToWord(Head(recs).pin), Head(recs).r))
         \o FileRecords(m, Tail(recs))

VaultFile(m, recs) == <<Len(recs)>> \o FileRecords(m, recs)

\* The files the open command is started on: no file (main uses vec![0x00]),
\* a vault under master 1 stored out of id order, a vault under master 9 whose
\* last slot is 98, and two malformed files.
OpenFiles ==
    {<<0>>,
     VaultFile(1, <<[id |-> 1, pin |-> 42, r |-> 2], [id |-> 0, pin |-> 99999999, r |-> 1]>>),
     VaultFile(9, <<[id |-> 98, pin |-> 7, r |-> 3]>>),
     <<1, 5, 0, 0>>,
     <<2, 3, 0, 0, 0, 1, 3, 0, 0, 0, 2>>}

InitOpen ==
    /\ pc = "main"
    /\ bytes \in OpenFiles
    /\ state = "Locked"
    /\ input = <<>>
    /\ master = {}
    /\ pins = <<>>
    /\ max_id = 0
    /\ selected = {}
    /\ last_selected = {}
    /\ edits = 0
    /\ saves = 0
    /\ CipherIdle
    /\ VerifyIdle
    /\ EngineIdle

\* main, the open arm: Pins::verify(&bytes)?, then App::new(..).run(..).
MainOpen ==
    /\ pc = "main"
    /\ pc' = IF verify(bytes) = "Ok" THEN "run" ELSE "error"
    /\ UNCHANGED <<bytes, state, input, master, pins, max_id, selected,
                   last_selected, edits, saves, notApp>>

Locked == pc = "run" /\ state = "Locked"
Unlocked == pc = "run" /\ state = "Unlocked"

\* (Locked, Enter) if !input.is_empty()
KeyEnter ==
    /\ Locked
    /\ input # <<>>
    /\ LET loaded == Pins_load(bytes, ToWord(ParseDigits(input)))
       IN  IF loaded.ok
           THEN /\ state' = "Unlocked"
                /\ master' = loaded.master
                /\ pins' = loaded.pins
                /\ max_id' = loaded.max_id
                /\ selected' = {}
                /\ last_selected' = {}
                /\ input' = <<>>
                /\ pc' = pc
           ELSE /\ pc' = "load_panicked"
                /\ UNCHANGED <<state, master, pins, max_id, selected, last_selected, input>>
    /\ UNCHANGED <<bytes, edits, saves, notApp>>

\* (Locked, Char('0'..='9')) if input.len() < 9
KeyDigitLocked ==
    /\ Locked
    /\ Len(input) < InputCap
    /\ Len(input) < MaxInput
    /\ \E c \in DigitKeys : input' = Append(input, c)
    /\ UNCHANGED <<pc, bytes, state, master, pins, max_id, selected, last_selected,
                   edits, saves, notApp>>

\* (Locked, Backspace) if !input.is_empty()
KeyBackspaceLocked ==
    /\ Locked
    /\ input # <<>>
    /\ input' = SubSeq(input, 1, Len(input) - 1)
    /\ UNCHANGED <<pc, bytes, state, master, pins, max_id, selected, last_selected,
                   edits, saves, notApp>>

\* (Unlocked, Char('s')) if ctrl: save, fs::write, self.bytes = bytes
KeyCtrlS ==
    /\ Unlocked
    /\ saves < MaxSaves
    /\ \E rs \in [1 .. Len(pins) -> SaveNonces] : bytes' = save(master, pins, rs)
    /\ saves' = saves + 1
    /\ UNCHANGED <<pc, state, input, master, pins, max_id, selected, last_selected,
                   edits, notApp>>

\* (Unlocked, Esc)
KeyEsc ==
    /\ Unlocked
    /\ state' = "Locked"
    /\ input' = <<>>
    /\ master' = {}
    /\ pins' = <<>>
    /\ max_id' = 0
    /\ selected' = {}
    /\ last_selected' = {}
    /\ UNCHANGED <<pc, bytes, edits, saves, notApp>>

\* UnlockedState::previous and ::next: the index selected afterwards.
previous_index(sel, last, len) ==
    IF sel # {}
    THEN LET i == CHOOSE x \in sel : TRUE IN IF i = 0 THEN len - 1 ELSE i - 1
    ELSE IF last # {} THEN CHOOSE x \in last : TRUE ELSE 0

next_index_past_end(sel, last, len) ==
    IF sel # {}
    THEN LET i == CHOOSE x \in sel : TRUE IN IF i >= len THEN 0 ELSE i + 1
    ELSE IF last # {} THEN CHOOSE x \in last : TRUE ELSE 0

next_index(sel, last, len) ==
    IF sel # {}
    THEN LET i == CHOOSE x \in sel : TRUE IN IF i >= len - 1 THEN 0 ELSE i + 1
    ELSE IF last # {} THEN CHOOSE x \in last : TRUE ELSE 0

\* (Unlocked, Char('k') | Up)
KeyUp ==
    /\ Unlocked
    /\ selected' = IF pins = <<>> THEN selected
                   ELSE {previous_index(selected, last_selected, Len(pins))}
    /\ UNCHANGED <<pc, bytes, state, input, master, pins, max_id, last_selected,
                   edits, saves, notApp>>

\* (Unlocked, Char('j') | Down)
KeyDown ==
    /\ Unlocked
    /\ selected' = IF pins = <<>> THEN selected
                   ELSE {next_index(selected, last_selected, Len(pins))}
    /\ UNCHANGED <<pc, bytes, state, input, master, pins, max_id, last_selected,
                   edits, saves, notApp>>

\* (Unlocked, Char('+')): unlocked.pins.add(0), its result dropped
KeyPlus ==
    /\ Unlocked
    /\ edits < MaxEdits
    /\ LET r == Pins_add(pins, max_id, {})
       IN  pins' = r.pins /\ max_id' = r.max_id
    /\ edits' = edits + 1
    /\ UNCHANGED <<pc, bytes, state, input, master, selected, last_selected,
                   saves, notApp>>

\* (Unlocked, Char('0'..='9')); an index past the end panics in Pins::get
KeyDigit ==
    /\ Unlocked
    /\ selected # {}
    /\ edits < MaxEdits
    /\ LET i == CHOOSE x \in selected : TRUE
       IN  IF i >= Len(pins)
           THEN pc' = "index_panicked" /\ pins' = pins
           ELSE /\ pc' = pc
                /\ \E c \in DigitKeys :
                     pins' = IF WordLt(pins[i + 1].pin, PinCap)
                             THEN Pins_set(pins, i, Mul10Add(pins[i + 1].pin, c))
                             ELSE pins
    /\ edits' = edits + 1
    /\ UNCHANGED <<bytes, state, input, master, max_id, selected, last_selected,
                   saves, notApp>>

\* (Unlocked, Backspace)
KeyBackspace ==
    /\ Unlocked
    /\ selected # {}
    /\ edits < MaxEdits
    /\ edits' = edits + 1
    /\ LET i == CHOOSE x \in selected : TRUE
       IN  IF i >= Len(pins)
           THEN pc' = "index_panicked" /\ pins' = pins
           ELSE pc' = pc /\ pins' = Pins_set(pins, i, Div10(pins[i + 1].pin))
    /\ UNCHANGED <<bytes, state, input, master, max_id, selected, last_selected,
                   saves, notApp>>

\* (Unlocked, Delete); unselect() keeps the selection in last_selected
KeyDelete ==
    /\ Unlocked
    /\ selected # {}
    /\ edits < MaxEdits
    /\ edits' = edits + 1
    /\ LET i == CHOOSE x \in selected : TRUE
       IN  IF i >= Len(pins)
           THEN pc' = "index_panicked" /\ UNCHANGED <<pins, selected, last_selected>>
           ELSE /\ pc' = pc
                /\ pins' = Pins_remove(pins, i)
                /\ IF Len(pins) = 1
                   THEN selected' = {} /\ last_selected' = selected
                   ELSE IF Len(pins) - 1 <= i
                        THEN selected' = {i - 1} /\ last_selected' = last_selected
                        ELSE UNCHANGED <<selected, last_selected>>
    /\ UNCHANGED <<bytes, state, input, master, max_id, saves, notApp>>

\* (_, Char('q')): exit; App::run returns and the App is dropped
KeyQ ==
    /\ pc = "run"
    /\ pc' = "exited"
    /\ state' = "Locked"
    /\ input' = <<>>
    /\ master' = {}
    /\ pins' = <<>>
    /\ max_id' = 0
    /\ selected' = {}
    /\ last_selected' = {}
    /\ UNCHANGED <<bytes, edits, saves, notApp>>

NextOpen ==
    \/ MainOpen
    \/ KeyEnter
    \/ KeyDigitLocked
    \/ KeyBackspaceLocked
    \/ KeyCtrlS
    \/ KeyEsc
    \/ KeyUp
    \/ KeyDown
    \/ KeyPlus
    \/ KeyDigit
    \/ KeyBackspace
    \/ KeyDelete
    \/ KeyQ

SpecOpen == InitOpen /\ [][NextOpen]_vars

\* -------------------------------------------------------- cracking engine

\* Cracker::load.  [ok |-> FALSE] is a failed assert!.
Cracker_load(bs) ==
    IF Len(bs) = 0 THEN [ok |-> FALSE]
    ELSE LET len == bs[1]
             body == Tail(bs)
         IN  IF Len(body) < len * 5 THEN [ok |-> FALSE]
             ELSE [ok |-> TRUE,
                   pins |-> [i \in 1 .. len |->
                               [id |-> RawId(body, i - 1), pin |-> RawWord(body, i - 1)]]]

PinMax == 999999999

\* 0 | 123_456_789 | 987_654_321
WeakPins == {ToWord(0), ToWord(123456789), ToWord(987654321)}

\* The `for raw_pin in self.pins.iter()` loop of part_bruteforce from the
\* records raw on, score so far given: the score it leaves.
RECURSIVE bruteforce_score(_, _, _)
bruteforce_score(raw, m, score) ==
    IF raw = <<>> THEN score
    ELSE LET pin == decrypt(ToWord(m), Head(raw).id, Head(raw).pin)
         IN  IF WordGt(pin, PinMax) THEN 0
             ELSE bruteforce_score(Tail(raw), m,
                                   IF pin \in WeakPins THEN score + 1 ELSE score)

\* The same loop of part_find.
find_score_no_break(raw, m, known, score) ==
    Cardinality({i \in DOMAIN raw :
        \E j \in DOMAIN known : known[j] = decrypt(ToWord(m), raw[i].id, raw[i].pin)})

RECURSIVE find_score(_, _, _, _)
find_score(raw, m, known, score) ==
    IF raw = <<>> THEN score
    ELSE LET pin == decrypt(ToWord(m), Head(raw).id, Head(raw).pin)
         IN  IF WordGt(pin, PinMax) THEN 0
             ELSE find_score(Tail(raw), m, known,
                             IF \E j \in DOMAIN known : known[j] = pin
                             THEN score + 1 ELSE score)

\* The candidate space bound max.unwrap_or(1_000_000_000) and the u32 modulus
\* 2^32 of the counter `master`, both scaled down so that every key is tried.
KeySpace == 2
CounterMod == 6

\* The history counter evals stops counting here.
EvalCap == 3

\* The first master of worker i and its step, as bruteforce_threaded and
\* find_threaded pass them to part_bruteforce / part_find.
start_of_next_index(i) == i + 1
start_of(i) == i
step_of(count) == count

Score(m) ==
    IF mode = "crack" THEN bruteforce_score(cracker, m, 0)
    ELSE find_score(cracker, m, known_pins, 0)

\* Vaults handed to crack / find.  Under key 1 the third decodes slot 0 to the
\* weak pin 0 and slot 1 to 2^30 - 1, which is out of range; the fourth holds
\* the same records in the other order; the last two are malformed (a
\* duplicate slot, a slot above 99).
CrackFiles ==
    {<<0>>,
     VaultFile(1, <<[id |-> 7, pin |-> 42, r |-> 3]>>),
     VaultFile(0, <<[id |-> 0, pin |-> 123456789, r |-> 1], [id |-> 3, pin |-> 42, r |-> 2]>>),
     VaultFile(1, <<[id |-> 0, pin |-> 0, r |-> 2], [id |-> 1, pin |-> 1073741823, r |-> 0]>>),
     VaultFile(1, <<[id |-> 1, pin |-> 1073741823, r |-> 0], [id |-> 0, pin |-> 0, r |-> 2]>>),
     <<2, 7, 0, 0, 0, 1, 7, 0, 0, 0, 2>>,
     <<1, 100, 0, 0, 0, 1>>}

KnownSets == {<<ToWord(42)>>, <<ToWord(0), ToWord(42), ToWord(123456789)>>}

\* Either the crack / find command is started (known_pins holds the arguments
\* after the thread count, possibly none), or the library entry point
\* Cracker::find_threaded is called on a loaded vault with an empty list.
InitCrackOn(files) ==
    /\ e_bytes \in files
    /\ mode \in {"crack", "find"}
    /\ thread_count \in 0 .. (CounterMod - 1)
    /\ \/ /\ e_pc = "main"
          /\ known_pins \in IF mode = "find" THEN KnownSets \cup {<<>>} ELSE {<<>>}
          /\ cracker = <<>>
       \/ /\ e_pc = "called"
          /\ mode = "find"
          /\ known_pins = <<>>
          /\ Cracker_load(e_bytes).ok
          /\ cracker = Cracker_load(e_bytes).pins
    /\ workers = <<>>
    /\ spawned = 0
    /\ joined = 0
    /\ result = <<>>
    /\ evals = [m \in 0 .. (KeySpace - 1) |-> 0]
    /\ CipherIdle
    /\ VerifyIdle
    /\ AppIdle

InitCrack == InitCrackOn(CrackFiles)

\* main up to the call of the engine.  The find arm matches only if
\* args.len() >= 4, that is with at least one known pin; with none no arm
\* matches and main bails with the usage.  crack / find then run
\* Pins::verify(&bytes)? and Cracker::load(&bytes).
MainCrack ==
    /\ e_pc = "main"
    /\ IF mode = "find" /\ known_pins = <<>>
       THEN e_pc' = "usage" /\ cracker' = cracker
       ELSE IF verify(e_bytes) # "Ok"
       THEN e_pc' = "error" /\ cracker' = cracker
       ELSE LET loaded == Cracker_load(e_bytes)
            IN  IF ~loaded.ok
                THEN e_pc' = "panicked" /\ cracker' = cracker
                ELSE e_pc' = "called" /\ cracker' = loaded.pins
    /\ UNCHANGED <<e_bytes, mode, thread_count, known_pins,
                   workers, spawned, joined, result, evals, notEngine>>

\* Entry of bruteforce_threaded / find_threaded, up to thread::scope.
CallEngine_no_assert ==
    /\ e_pc = "called"
    /\ e_pc' = "spawning"
    /\ UNCHANGED <<e_bytes, mode, thread_count, known_pins,
                   cracker, workers, spawned, joined, result, evals, notEngine>>

\* find_threaded starts with assert!(!known_pins.is_empty()).
CallEngine ==
    /\ e_pc = "called"
    /\ e_pc' = IF mode = "find" /\ known_pins = <<>> THEN "panicked" ELSE "spawning"
    /\ UNCHANGED <<e_bytes, mode, thread_count, known_pins,
                   cracker, workers, spawned, joined, result, evals, notEngine>>

\* One turn of `for i in 0..thread_count`: scope.spawn of worker i.
Spawn ==
    /\ e_pc = "spawning"
    /\ spawned < thread_count
    /\ workers' = Append(workers, [st |-> "running", master |-> start_of(spawned),
                                   sus |-> <<>>])
    /\ spawned' = spawned + 1
    /\ UNCHANGED <<e_pc, e_bytes, mode, thread_count, known_pins,
                   cracker, joined, result, evals, notEngine>>

\* The loop is left: the handles are joined next.
SpawnDone ==
    /\ e_pc = "spawning"
    /\ spawned = thread_count
    /\ e_pc' = "joining"
    /\ UNCHANGED <<e_bytes, mode, thread_count, known_pins,
                   cracker, workers, spawned, joined, result, evals, notEngine>>

\* One turn of `while master < max` in worker w (1-based here): score the
\* master, push it if the score is positive, master += step.  When the sum
\* does not fit the counter, a build without overflow checks (release) wraps
\* and a build with them (debug) panics: both outcomes are possible.
WorkerStep_no_advance(w) ==
    /\ workers[w].st = "running"
    /\ workers[w].master < KeySpace
    /\ LET m == workers[w].master
           score == Score(m)
           sus == IF score > 0 /\ Len(workers[w].sus) < EvalCap
                  THEN Append(workers[w].sus, [master |-> m, score |-> score])
                  ELSE workers[w].sus
       IN  /\ evals' = [evals EXCEPT ![m] = IF @ < EvalCap THEN @ + 1 ELSE @]
           /\ workers' = [workers EXCEPT ![w].sus = sus]
    /\ UNCHANGED <<e_pc, e_bytes, mode, thread_count, known_pins,
                   cracker, spawned, joined, result, notEngine>>

WorkerStep(w) ==
    /\ workers[w].st = "running"
    /\ workers[w].master < KeySpace
    /\ LET m == workers[w].master
           score == Score(m)
           sus == IF score > 0
                  THEN Append(workers[w].sus, [master |-> m, score |-> score])
                  ELSE workers[w].sus
           next == m + step_of(thread_count)
       IN  /\ evals' = [evals EXCEPT ![m] = IF @ < EvalCap THEN @ + 1 ELSE @]
           /\ \/ workers' = [workers EXCEPT ![w].master = next % CounterMod, ![w].sus = sus]
              \/ /\ next >= CounterMod
                 /\ workers' = [workers EXCEPT ![w].st = "panicked", ![w].sus = sus]
    /\ UNCHANGED <<e_pc, e_bytes, mode, thread_count, known_pins,
                   cracker, spawned, joined, result, notEngine>>

\* The loop of worker w is left: it returns sus.
WorkerReturn(w) ==
    /\ workers[w].st = "running"
    /\ workers[w].master >= KeySpace
    /\ workers' = [workers EXCEPT ![w].st = "finished"]
    /\ UNCHANGED <<e_pc, e_bytes, mode, thread_count, known_pins,
                   cracker, spawned, joined, result, evals, notEngine>>

Join_keep_panicked ==
    /\ e_pc = "joining"
    /\ joined < thread_count
    /\ workers[joined + 1].st \in {"finished", "panicked"}
    /\ result' = result \o workers[joined + 1].sus
    /\ joined' = joined + 1
    /\ UNCHANGED <<e_pc, e_bytes, mode, thread_count, known_pins,
                   cracker, workers, spawned, evals, notEngine>>

Join_no_wait ==
    /\ e_pc = "joining"
    /\ joined < thread_count
    /\ result' = IF workers[joined + 1].st # "panicked"
                 THEN result \o workers[joined + 1].sus
                 ELSE result
    /\ joined' = joined + 1
    /\ UNCHANGED <<e_pc, e_bytes, mode, thread_count, known_pins,
                   cracker, workers, spawned, evals, notEngine>>

\* handles.into_iter().map(join).filter_map(|sus| sus.ok()).flatten(): the
\* next handle is joined once its thread has ended; a panicked one adds nothing.
Join ==
    /\ e_pc = "joining"
    /\ joined < thread_count
    /\ workers[joined + 1].st \in {"finished", "panicked"}
    /\ result' = IF workers[joined + 1].st = "finished"
                 THEN result \o workers[joined + 1].sus
                 ELSE result
    /\ joined' = joined + 1
    /\ UNCHANGED <<e_pc, e_bytes, mode, thread_count, known_pins,
                   cracker, workers, spawned, evals, notEngine>>

\* collect() is complete: the engine returns result.
Return ==
    /\ e_pc = "joining"
    /\ joined = thread_count
    /\ e_pc' = "done"
    /\ UNCHANGED <<e_bytes, mode, thread_count, known_pins,
                   cracker, workers, spawned, joined, result, evals, notEngine>>

NextCrack ==
    \/ MainCrack
    \/ CallEngine
    \/ Spawn
    \/ SpawnDone
    \/ \E w \in DOMAIN workers : WorkerStep(w)
    \/ \E w \in DOMAIN workers : WorkerReturn(w)
    \/ Join
    \/ Return

SpecCrack == InitCrack /\ [][NextCrack]_vars

\* The main thread runs whenever it is not blocked in join, and every
\* spawned thread is an OS thread that keeps being scheduled.
FairCrack ==
    /\ WF_vars(MainCrack \/ CallEngine \/ Spawn \/ SpawnDone \/ Join \/ Return)
    /\ \A w \in 1 .. CounterMod :
          WF_vars(w \in DOMAIN workers /\ (WorkerStep(w) \/ WorkerReturn(w)))

\* Whether a worker loop is left depends on the counter alone, not on what
\* the records decode to: the fair runs are those on the vault without records.
FairFiles == {<<0>>}

InitCrackFair == InitCrackOn(FairFiles)

SpecCrackFair == InitCrackFair /\ [][NextCrack]_vars /\ FairCrack

\* ------------------------------------------------- the commands together

\* A run of the program is a run of one of its commands: open, crack or find.
InitCommands == InitOpen \/ InitCrack

NextCommands == NextOpen \/ NextCrack

SpecCommands == InitCommands /\ [][NextCommands]_vars

\* ----------------------------------------------------------------- claims

\* C1: for every master, every slot id in [0,99], every pin below 2^30 and
\* every value of the 2 random mask bits, decrypt(master, id,
\* encrypt(master, id, pin)) = pin.
C1_RoundTrip ==
    (c_pc = "decrypted" /\ WordLt(c_pin, Pow2(30))) => c_out = c_pin

C1_Witness ==
    /\ c_pc = "decrypted"
    /\ c_master = ToWord(123456789)
    /\ c_id = 7
    /\ c_pin = ToWord(42)
    /\ c_nonce = 3
    /\ c_word # c_pin
    /\ c_out = ToWord(42)

\* C10 (as claimed): encapsulate(pin) keeps bits 0-29 of pin and has bits
\* 30-31 equal to the random value r, for every 32-bit pin; decapsulate(word)
\* keeps bits 0-29 of word and has bits 30-31 equal to 0.
C10_MaskAsClaimed ==
    /\ c_pc = "masked_in" =>
          /\ \A b \in 0 .. 29 : (b \in c_word) <=> (b \in c_pin)
          /\ (30 \in c_word) <=> (c_nonce % 2 = 1)
          /\ (31 \in c_word) <=> (c_nonce \div 2 = 1)
    /\ c_pc = "masked_out" =>
          /\ \A b \in 0 .. 29 : (b \in c_out) <=> (b \in c_word)
          /\ 30 \notin c_out
          /\ 31 \notin c_out

\* C6: Pins::verify fails with ErrEmpty exactly on the empty buffer and with
\* ErrTruncated exactly on a non-empty buffer of fewer than 1 + 5n bytes
\* (n = byte 0); on a complete buffer it fails with ErrIdTooLarge only if one
\* of the n id bytes is above 99 and with ErrDuplicate only if two of them are
\* equal, it fails with that error when only that condition holds, and it
\* succeeds exactly when none of the four conditions holds.
C6_ids == [i \in 1 .. v_bytes[1] |-> v_bytes[5 * (i - 1) + 2]]
C6_complete == Len(v_bytes) > 0 /\ Len(v_bytes) >= 1 + 5 * v_bytes[1]
C6_invalid == C6_complete /\ \E i \in DOMAIN C6_ids : C6_ids[i] > 99
C6_duplicate ==
    C6_complete /\ \E i, j \in DOMAIN C6_ids : i # j /\ C6_ids[i] = C6_ids[j]

C6_ParseValidation ==
    v_pc = "done" =>
        /\ (v_result = ErrEmpty) <=> (Len(v_bytes) = 0)
        /\ (v_result = ErrTruncated) <=> (Len(v_bytes) > 0 /\ ~C6_complete)
        /\ (v_result = ErrIdTooLarge) => C6_invalid
        /\ (v_result = ErrDuplicate) => C6_duplicate
        /\ (C6_invalid /\ ~C6_duplicate) => v_result = ErrIdTooLarge
        /\ (C6_duplicate /\ ~C6_invalid) => v_result = ErrDuplicate
        /\ (v_result = "Ok") <=> (C6_complete /\ ~C6_invalid /\ ~C6_duplicate)

C6_Witness ==
    /\ v_pc = "done"
    /\ v_bytes = <<2, 7, 200, 0, 7, 99, 7, 200, 0, 7, 99>>
    /\ v_result = ErrDuplicate

\* The records of pins whose pin is nonzero, in order.
RECURSIVE NonZero(_)
NonZero(ps) ==
    IF ps = <<>> THEN <<>>
    ELSE IF Head(ps).pin # {} THEN <<Head(ps)>> \o NonZero(Tail(ps))
    ELSE NonZero(Tail(ps))

\* The id bytes of the records a save output holds, whatever its count byte says.
StoredIds(out) == {out[5 * k + 2] : k \in 0 .. ((Len(out) - 1) \div 5) - 1}

\* C7 (as claimed): every buffer that reaches Pins::load satisfies
\* Pins::verify, and no assert! of Pins::load fires, at every unlock (Enter)
\* of the editor, also after add / edit / remove / save / lock key events.
C7_ValidatedBeforeLoad ==
    [][KeyEnter => (verify(bytes) = "Ok" /\ pc' # "load_panicked")]_vars

\* C8 (as claimed): when a pin of the unlocked vault is 0 at a save, the save
\* output holds no record for its slot, Pins::verify accepts the output, and
\* Pins::load of it under the same master yields exactly the nonzero pins.
C8_SaveOmission ==
    [][(KeyCtrlS /\ \E i \in DOMAIN pins : pins[i].pin = {}) =>
         /\ \A i \in DOMAIN pins : pins[i].pin = {} => pins[i].id \notin StoredIds(bytes')
         /\ verify(bytes') = "Ok"
         /\ Pins_load(bytes', master).ok
         /\ Pins_load(bytes', master).pins = NonZero(pins)]_vars

\* C9 (as claimed): every byte vector Pins::save returns is
\* [count][(id, 4-byte word) x count]: its length is 1 + 5 * (byte 0).
C9_SaveLayout ==
    [][KeyCtrlS => Len(bytes') = 1 + 5 * bytes'[1]]_vars

\* C2 (as claimed): for every worker count T >= 1, when the search returns,
\* the workers together have evaluated every master below the bound exactly
\* once: none skipped, none evaluated twice.
C2_PartitionComplete ==
    (e_pc = "done" /\ thread_count >= 1) =>
        \A m \in DOMAIN evals : evals[m] = 1

\* How many entries of the candidate list sus name master m.
Occurrences(sus, m) == Cardinality({i \in DOMAIN sus : sus[i].master = m})

\* C3 (as claimed): for T >= 1 and no worker failure, the returned list, as a
\* multiset, is the sequential reference: one entry (k, score(k)) for each
\* master k below the bound with score(k) > 0, and nothing else.
C3_WorkerCountIndependent ==
    (/\ e_pc = "done"
     /\ thread_count >= 1
     /\ \A w \in DOMAIN workers : workers[w].st = "finished") =>
        /\ \A i \in DOMAIN result :
              /\ result[i].master \in 0 .. (KeySpace - 1)
              /\ result[i].score = Score(result[i].master)
        /\ \A k \in 0 .. (KeySpace - 1) :
              Occurrences(result, k) = IF Score(k) > 0 THEN 1 ELSE 0

\* Some record of the loaded vault decodes under master m to more than 999_999_999.
Implausible(m) ==
    \E i \in DOMAIN cracker :
        WordGt(decrypt(ToWord(m), cracker[i].id, cracker[i].pin), PinMax)

\* Record i of the loaded vault decodes under master m to a matching value.
Matching(m, i) ==
    LET pin == decrypt(ToWord(m), cracker[i].id, cracker[i].pin)
    IN  IF mode = "crack" THEN pin \in WeakPins
        ELSE \E j \in DOMAIN known_pins : known_pins[j] = pin

\* C4: in both modes, a master under which any record decodes out of range
\* scores 0 and is never emitted, by no worker and not in the result,
\* whatever the other records decode to.
C4_ImplausibleScoresZero ==
    e_pc \in {"spawning", "joining", "done"} =>
        /\ \A m \in 0 .. (KeySpace - 1) : Implausible(m) => Score(m) = 0
        /\ \A w \in DOMAIN workers : \A i \in DOMAIN workers[w].sus :
              ~Implausible(workers[w].sus[i].master)
        /\ \A i \in DOMAIN result : ~Implausible(result[i].master)

\* Master 1 was evaluated on a vault whose first record matches under it and
\* whose second is out of range, and the search returned without it.
C4_Witness ==
    /\ e_pc = "done"
    /\ mode = "find"
    /\ thread_count = 2
    /\ evals[1] = 1
    /\ Len(cracker) = 2
    /\ Matching(1, 1)
    /\ WordGt(decrypt(ToWord(1), cracker[2].id, cracker[2].pin), PinMax)
    /\ Occurrences(result, 1) = 0

\* The vaults among CrackFiles that were encoded under a master below the
\* bound with every pin in range.
EncodedVaults ==
    {[m |-> 1, recs |-> <<[id |-> 7, pin |-> 42, r |-> 3]>>],
     [m |-> 0, recs |-> <<[id |-> 0, pin |-> 123456789, r |-> 1],
                          [id |-> 3, pin |-> 42, r |-> 2]>>]}

InKnown(pin) == \E j \in DOMAIN known_pins : known_pins[j] = ToWord(pin)

\* C5 (as claimed): for a vault encoded under M with pins in range, find
\* with a known set holding a stored pin and any T >= 1 returns M with score
\* the number of records whose pin is known; crack does not return M when no
\* stored pin is 0, 123456789 or 987654321.
C5_FindsTrueKey ==
    \A v \in EncodedVaults :
        (e_pc = "done" /\ thread_count >= 1 /\ e_bytes = VaultFile(v.m, v.recs)) =>
            /\ (mode = "find" /\ \E i \in DOMAIN v.recs : InKnown(v.recs[i].pin)) =>
                  \E j \in DOMAIN result :
                      /\ result[j].master = v.m
                      /\ result[j].score =
                            Cardinality({i \in DOMAIN v.recs : InKnown(v.recs[i].pin)})
            /\ (mode = "crack" /\ \A i \in DOMAIN v.recs : ToWord(v.recs[i].pin) \notin WeakPins) =>
                  Occurrences(result, v.m) = 0

\* The lists of the first k workers that returned normally, in spawn order.
RECURSIVE FinishedLists(_)
FinishedLists(k) ==
    IF k = 0 THEN <<>>
    ELSE FinishedLists(k - 1)
         \o (IF workers[k].st = "finished" THEN workers[k].sus ELSE <<>>)

Ended(w) == workers[w].st \in {"finished", "panicked"}

\* C11: whichever workers panic, the search is never stuck once the workers
\* have ended, and what it has collected, and finally returns, is exactly the
\* concatenation of the lists of the joined workers that returned normally:
\* a panicked worker adds nothing and takes nothing away.
C11_WorkerFailureNonFatal ==
    /\ e_pc \in {"joining", "done"} => result = FinishedLists(joined)
    /\ e_pc = "done" => (joined = thread_count /\ joined = Len(workers))
    /\ (e_pc = "joining" /\ \A w \in DOMAIN workers : Ended(w)) => ENABLED (Join \/ Return)

\* The search returned although a worker that had found a candidate panicked;
\* that candidate is not in the result.
C11_Witness ==
    /\ e_pc = "done"
    /\ \E w \in DOMAIN workers :
          /\ workers[w].st = "panicked"
          /\ workers[w].sus # <<>>
          /\ Occurrences(result, workers[w].sus[1].master) = 0
    /\ \E w \in DOMAIN workers : workers[w].st = "finished"

\* C12: find_threaded entered with an empty known list fails at once: no
\* worker is spawned, no master is evaluated, no list is returned; and the
\* find command with no known pin ends in main with the usage, so a find
\* search never runs on an empty list.
C12_EmptyKnownRejected ==
    /\ [][(e_pc = "called" /\ mode = "find" /\ known_pins = <<>>) =>
             (e_pc' = "panicked" /\ workers' = <<>> /\ result' = <<>> /\ evals' = evals)]_vars
    /\ [][(e_pc = "main" /\ mode = "find" /\ known_pins = <<>>) => e_pc' = "usage"]_vars
    /\ []((mode = "find" /\ known_pins = <<>>) =>
             (/\ e_pc \in {"main", "usage", "called", "panicked"}
              /\ workers = <<>>
              /\ result = <<>>
              /\ \A m \in DOMAIN evals : evals[m] = 0))

C12_Witness ==
    /\ e_pc = "panicked"
    /\ mode = "find"
    /\ known_pins = <<>>
    /\ Len(cracker) = 2
    /\ thread_count = 2
    /\ workers = <<>>

\* C13: the engine returns only when each of the thread_count spawned workers
\* has ended, a handle is joined only when its worker has ended, a step of a
\* worker changes that worker's record alone, and neither the workers nor the
\* join change the loaded vault.
C13_JoinBarrier ==
    /\ [](e_pc = "done" =>
             /\ Len(workers) = thread_count
             /\ \A w \in DOMAIN workers : Ended(w))
    /\ [][joined' # joined => (Ended(joined + 1) /\ workers' = workers)]_vars
    /\ [][(Len(workers') = Len(workers) /\ workers' # workers) =>
             /\ Cardinality({w \in DOMAIN workers : workers'[w] # workers[w]}) = 1
             /\ result' = result]_vars
    /\ [][(e_pc = "spawning" \/ e_pc = "joining") => (cracker' = cracker /\ e_bytes' = e_bytes)]_vars

\* Two workers ran to the end and the engine returned their merged lists.
C13_Witness ==
    /\ e_pc = "done"
    /\ thread_count = 2
    /\ \A w \in DOMAIN workers : workers[w].st = "finished"
    /\ \A m \in DOMAIN evals : evals[m] = 1
    /\ Len(result) = 1

\* C14: under fair scheduling every worker loop is left, for every worker
\* count and start index, wrap-around of the counter included, and every
\* search that was entered returns.
C14_SearchTerminates == (e_pc = "spawning") ~> (e_pc = "done")

\* A search returned in which a worker's counter had wrapped around.
C14_Witness ==
    /\ e_pc = "done"
    /\ thread_count >= 1
    /\ \E m \in DOMAIN evals : evals[m] = 2
    /\ \A w \in DOMAIN workers : workers[w].st = "finished"

\* C15: in the unlocked editor, after Pins::load of a verified buffer and any
\* add / set / remove, the slot ids are at most 99 and strictly ascending
\* (so pairwise distinct), there are at most 100 records, and once max_id is
\* 99 add returns false and changes nothing.
C15_SlotInvariant ==
    /\ [](Unlocked =>
             /\ \A i \in DOMAIN pins : pins[i].id <= 99 /\ pins[i].id <= max_id
             /\ \A i, j \in DOMAIN pins : i < j => pins[i].id < pins[j].id
             /\ Len(pins) <= 100)
    /\ [][(KeyPlus /\ max_id >= 99) =>
             (~Pins_add(pins, max_id, {}).ok /\ pins' = pins /\ max_id' = max_id)]_vars

\* Slot 99 was added after slot 98, and a further add was refused.
C15_Witness ==
    /\ Unlocked
    /\ max_id = 99
    /\ Len(pins) = 2
    /\ pins[1].id = 98
    /\ pins[2].id = 99
    /\ edits = 2

\* The same mask bits r for every record of a save.
SameNonce(r) == [i \in DOMAIN pins |-> r]

\* C16: when every pin of the unlocked vault is nonzero, Pins::load of what
\* Pins::save returns, under the same master, yields the same (id, pin)
\* sequence, whatever mask bits the save drew.
C16_SaveLoadRoundTrip ==
    [][(KeyCtrlS /\ \A i \in DOMAIN pins : pins[i].pin # {}) =>
         /\ Pins_load(bytes', master).ok
         /\ Pins_load(bytes', master).pins = pins
         /\ \A r \in Nonces :
               Pins_load(save(master, pins, SameNonce(r)), master).pins = pins]_vars

\* An edited vault of two nonzero pins was saved and loads back as it is.
C16_Witness ==
    /\ Unlocked
    /\ saves = 1
    /\ master = ToWord(1)
    /\ pins = <<[id |-> 0, pin |-> ToWord(999999999)], [id |-> 1, pin |-> ToWord(42)]>>
    /\ Pins_load(bytes, master).ok
    /\ Pins_load(bytes, master).pins = pins

\* C17: in the unlocked editor every pin is below 2^30, whatever master was
\* entered, and a digit key leaves every pin that was at most 999_999_999 at
\* most 999_999_999.
C17_PinRange ==
    /\ [](Unlocked => \A i \in DOMAIN pins : WordLt(pins[i].pin, Pow2(30)))
    /\ [][KeyDigit =>
             \A i \in DOMAIN pins :
                 ~WordGt(pins[i].pin, 999999999) => ~WordGt(pins'[i].pin, 999999999)]_vars

\* A ninth digit was typed into a pin, and a tenth was not taken.
C17_Witness ==
    /\ Unlocked
    /\ selected = {0}
    /\ pins[1].pin = ToWord(999999999)
    /\ edits = 2

\* C18: in the unlocked editor the selection is None or an index below the
\* number of pins, so Pins::get / set / remove never get an index out of
\* range, and after a Delete that empties the vault the selection is None.
C18_SelectionInBounds ==
    /\ [](pc # "index_panicked")
    /\ [](Unlocked => \A i \in selected : i < Len(pins))
    /\ [][(KeyDelete /\ pins' = <<>>) => selected' = {}]_vars

\* The last of two pins was deleted while selected: the selection moved up.
C18_Witness ==
    /\ Unlocked
    /\ Len(pins) = 1
    /\ pins[1].id = 0
    /\ max_id = 1
    /\ selected = {0}
    /\ edits = 1

\* The records a buffer holds by its length: [id, pin] with pin the raw word.
RecordsOf(out) ==
    [k \in 1 .. ((Len(out) - 1) \div 5) |->
        [id |-> RawId(Tail(out), k - 1), pin |-> RawWord(Tail(out), k - 1)]]

Low30(w) == {b \in w : b < 30}

\* C19: when the vault file is unlocked with any master and saved without an
\* edit, every record that decodes to a nonzero pin under that master is in
\* the saved buffer with the same slot id and the same low 30 bits, so it
\* decodes as before under the masters the files were written with.
C19_WrongMasterSaveKeepsWords ==
    [][(KeyCtrlS /\ edits = 0 /\ saves = 0) =>
         \A k \in DOMAIN RecordsOf(bytes) :
             LET old == RecordsOf(bytes)[k]
             IN  decrypt(master, old.id, old.pin) # {} =>
                     \E j \in DOMAIN RecordsOf(bytes') :
                         LET new == RecordsOf(bytes')[j]
                         IN  /\ new.id = old.id
                             /\ Low30(new.pin) = Low30(old.pin)
                             /\ \A m \in {1, 9} :
                                   decrypt(ToWord(m), new.id, new.pin)
                                       = decrypt(ToWord(m), old.id, old.pin)]_vars

\* The vault written under master 1 was unlocked with master 9 and saved:
\* the file is another one, and under master 1 it still holds the two pins.
C19_Witness ==
    /\ Unlocked
    /\ saves = 1
    /\ edits = 0
    /\ master = ToWord(9)
    /\ Len(pins) = 2
    /\ bytes \notin OpenFiles
    /\ Pins_load(bytes, ToWord(1)).ok
    /\ Pins_load(bytes, ToWord(1)).pins =
          <<[id |-> 0, pin |-> ToWord(99999999)], [id |-> 1, pin |-> ToWord(42)]>>

\* The step count id + 1 of slot id is computed without overflow and lies in [1, 100].
StepInRange(id) == id <= 99 /\ StepCount(id) = id + 1 /\ StepCount(id) \in 1 .. 100

\* n_shift(seed, 0) = seed and n_shift(seed, id + 1) = xorshift32(n_shift(seed, id)).
StreamLaw(seed, id) ==
    /\ n_shift(seed, 0) = seed
    /\ n_shift(seed, id + 1) = xorshift32(n_shift(seed, id))

\* C20: every slot id handed to decrypt by Pins::load (open, at unlock), to
\* encrypt by Pins::save (open, at Ctrl-S) and to decrypt by the workers
\* (crack, find) is at most 99, so id + 1 does not overflow the u8 and is in
\* [1, 100]; and for the seeds and ids of these calls n_shift(seed, 0) = seed
\* and n_shift(seed, id + 1) = xorshift32(n_shift(seed, id)).
C20_StepCountInRange ==
    /\ [][(KeyEnter /\ pc' # "load_panicked") =>
             \A i \in DOMAIN pins' : StepInRange(pins'[i].id)]_vars
    /\ [][KeyCtrlS => \A i \in DOMAIN pins : StepInRange(pins[i].id)]_vars
    /\ [](e_pc \in {"spawning", "joining", "done"} =>
             \A i \in DOMAIN cracker : StepInRange(cracker[i].id))
    /\ [](Unlocked => \A i \in DOMAIN pins : StreamLaw(master, pins[i].id))
    /\ [](e_pc = "spawning" =>
             \A i \in DOMAIN cracker, m \in 0 .. (KeySpace - 1) :
                 StreamLaw(ToWord(m), cracker[i].id))

\* Slot 99 was added and saved: encrypt ran with step count 100.
C20_Witness ==
    /\ Unlocked
    /\ saves = 1
    /\ Len(pins) = 2
    /\ pins[2].id = 99
    /\ pins[2].pin # {}
    /\ StepCount(pins[2].id) = 100

====
